---- MODULE Spec2Model ----
(***************************************************************************)
(* Funnel Flow: the two Genkit flows analyzeMarketingOffer and             *)
(* generateSocialMediaCopy (request schema -> prompt -> model call ->      *)
(* response schema).                                                       *)
(*                                                                         *)
(* JavaScript values are records [t, s, n10]: t is the runtime type, s the *)
(* text of a string, n10 ten times the value of a number (so 75 is 7.5).   *)
(* Objects and arrays are records with a t field and their own fields.     *)
(*                                                                         *)
(* Spec     one flow invocation at a time, from call to settled promise    *)
(* SpecPar  several invocations in flight at once                          *)
(* SpecPage the Home page: form state, submit, and the pending analysis    *)
(***************************************************************************)
EXTENDS Integers, Sequences, FiniteSets, TLC

VARIABLES
    flow,        \* the exported function that was called
    input,       \* its argument
    chained,     \* TRUE when input.analysis is the analysis of the last result
    pc,          \* position of the flow body
    prompt,      \* the rendered prompt handed to the model
    modelCalls,  \* number of model calls made by this invocation
    response,    \* what the awaited prompt call produced
    outcome,     \* what the caller's promise settled to
    timedOut     \* the caller's time budget ran out during the model call

VARIABLES
    inv,         \* SpecPar: the invocations in flight, each with its own locals
    config       \* SpecPar: the model configuration every invocation reads

VARIABLES
    inputType,   \* Home: useState('link')
    inputValue,  \* Home: useState('')
    persona,     \* Home: useState('General Audience')
    results,     \* Home: useState(null)
    error,       \* Home: useState(''), as the parts of the text
    isPending,   \* Home: useTransition()
    started,     \* number of analyzeMarketingOffer calls the page has made
    inFlight,    \* the calls that have not settled yet
    settled      \* the settlement handled last

VARIABLES
    shown,       \* AnalysisResults: the analysis items it was given, as their scores
    donuts       \* the ScoreDonut elements rendered for them so far

VARIABLES
    copySuccess, \* AnalysisResults: useState('')
    clicks,      \* number of clicks on the copy button
    writes,      \* clipboard writes that have not settled, by click
    timers,      \* timeouts that have not fired, in the order they were set
    labelFrom    \* the click whose handler set the label on display

flowVars == <<flow, input, chained, pc, prompt, modelCalls, response, outcome, timedOut>>
parVars == <<inv, config>>
pageVars == <<inputType, inputValue, persona, results, error, isPending,
              started, inFlight, settled>>

donutVars == <<shown, donuts>>
copyVars == <<copySuccess, clicks, writes, timers, labelFrom>>
resultsVars == <<donutVars, copyVars>>

vars == <<flowVars, parVars, pageVars, resultsVars>>

\* Invocations that may be in flight at once in SpecPar.
NumInv == 2
Invocations == 1..NumInv

\* Analyses the page starts in one session.
MaxSubmits == 2

\* Largest analysis array the model service is taken to return.
MaxItems == 4

----------------------------------------------------------------------------
\* JavaScript values

Str(x) == [t |-> "string", s |-> x, n10 |-> 0]
Tenths(k) == [t |-> "number", s |-> "", n10 |-> k]
Num(i) == Tenths(10 * i)
Undefined == [t |-> "undefined", s |-> "", n10 |-> 0]
Null == [t |-> "null"]

\* String.prototype.length of the texts used below.
Length(x) ==
    CASE x = "" -> 0
      [] x = "short" -> 5
      [] x = "123456789" -> 9
      [] x = "1234567890" -> 10
      [] x = "https://example.com/signup" -> 26
      [] x = "Buy now." -> 8
      [] x = "Stop guessing where your funnel leaks." -> 38
      [] x = "Struggling to turn visitors into sign-ups? See exactly where your funnel leaks and fix it today." -> 96

----------------------------------------------------------------------------
\* zod primitives as the schemas use them

ZString(v) == v.t = "string"
ZNumber(v) == v.t = "number"
ZEnum(v, values) == v.t = "string" /\ v.s \in values
ZArray(v) == v.t = "array"

\* inputType declared as z.string() instead of the enum
InputTypeLoose(v) == ZString(v)
\* z.enum(['link', 'text'])
InputTypeSchema(v) == ZEnum(v, {"link", "text"})

\* AnalyzeMarketingOfferInputSchema: the fields that fail to parse
AnalyzeInputIssues(in) ==
    {f \in {"offerDetails", "inputType", "persona"} :
        \/ f = "offerDetails" /\ ~ZString(in.offerDetails)
        \/ f = "inputType" /\ ~InputTypeSchema(in.inputType)
        \/ f = "persona" /\ ~ZString(in.persona)}

FixSchema(fx) ==
    /\ fx.t = "object"
    /\ ZString(fx.primarySuggestion)
    /\ ZString(fx.abTestSuggestion)

\* AnalysisItemSchema
AnalysisItemSchema(it) ==
    /\ it.t = "object"
    /\ ZString(it.id)
    /\ ZString(it.area)
    /\ ZNumber(it.score)
    /\ ZString(it.leak)
    /\ FixSchema(it.fix)

\* SampleCopySchema and GenerateSocialMediaCopyOutputSchema have the same shape
SampleCopySchema(c) ==
    /\ c.t = "object"
    /\ ZString(c.platform)
    /\ ZString(c.content)

AnalyzeMarketingOfferOutputSchema(out) ==
    /\ out.t = "object"
    /\ ZArray(out.analysis)
    /\ \A i \in 1..Len(out.analysis.items) : AnalysisItemSchema(out.analysis.items[i])
    /\ SampleCopySchema(out.sampleCopy)

\* The element schema made .strict(): a key it does not name is an issue
CopyItemStrict(it) ==
    /\ it.t = "object"
    /\ it.id.t = "undefined"
    /\ ZString(it.area)
    /\ ZNumber(it.score)
    /\ ZString(it.leak)
    /\ FixSchema(it.fix)
\* The element schema of GenerateSocialMediaCopyInputSchema.analysis: a plain
\* z.object, so a key it does not name (id) is not an issue.
CopyItemSchema(it) ==
    /\ it.t = "object"
    /\ ZString(it.area)
    /\ ZNumber(it.score)
    /\ ZString(it.leak)
    /\ FixSchema(it.fix)

\* GenerateSocialMediaCopyInputSchema: the fields that fail to parse
CopyInputIssues(in) ==
    {f \in {"analysis", "persona", "offerDetails"} :
        \/ f = "analysis" /\ ~(/\ ZArray(in.analysis)
                               /\ \A i \in 1..Len(in.analysis.items) :
                                     CopyItemSchema(in.analysis.items[i]))
        \/ f = "persona" /\ ~ZString(in.persona)
        \/ f = "offerDetails" /\ ~ZString(in.offerDetails)}

InputIssues(f, in) ==
    IF f = "analyzeMarketingOffer" THEN AnalyzeInputIssues(in) ELSE CopyInputIssues(in)

OutputSchema(f, out) ==
    IF f = "analyzeMarketingOffer"
    THEN AnalyzeMarketingOfferOutputSchema(out)
    ELSE SampleCopySchema(out)

----------------------------------------------------------------------------
\* The requests callers make and the payloads the model service returns

personaOptions ==
    {"General Audience", "SaaS Founders", "Busy Parents", "Coaches & Consultants",
     "E-commerce Shoppers", "Creative Professionals"}

OfferDetailsValues ==
    {Str(""), Str("short"), Str("123456789"), Str("1234567890"),
     Str("https://example.com/signup"), Undefined}
InputTypeValues == {Str("link"), Str("text"), Str("invalid"), Undefined}
PersonaValues == {Str(p) : p \in personaOptions} \cup {Str(""), Str("Night Owls"), Undefined}

AnalyzeRequests ==
    {[offerDetails |-> o, inputType |-> ty, persona |-> p] :
        o \in OfferDetailsValues, ty \in InputTypeValues, p \in PersonaValues}

Fix(a, b) == [t |-> "object", primarySuggestion |-> a, abTestSuggestion |-> b]
GoodFix == Fix(Str("Lead with the main benefit."), Str("Lead with a customer quote."))
NoFix == [t |-> "undefined", primarySuggestion |-> Undefined, abTestSuggestion |-> Undefined]

GoodItem(i) ==
    [t |-> "object", id |-> Str(ToString(i)), area |-> Str("Headline Clarity"),
     score |-> Num(7), leak |-> Str("The headline hides the benefit."), fix |-> GoodFix]

ScoreValues == {Num(0), Num(1), Num(10), Num(11), Tenths(75), Str("7"), Undefined}

ItemValues(i) ==
    {GoodItem(i)}
    \cup {[GoodItem(i) EXCEPT !.score = v] : v \in ScoreValues}
    \cup {[GoodItem(i) EXCEPT !.fix = Fix(Str("Lead with the main benefit."),
                                          Str("Lead with the main benefit."))],
          [GoodItem(i) EXCEPT !.fix = NoFix],
          [GoodItem(i) EXCEPT !.id = Undefined]}

Array(items) == [t |-> "array", items |-> items]
NoArray == [t |-> "undefined", items |-> <<>>]

\* Arrays of 0..MaxItems items, at most one of which is not GoodItem
AnalysisValues ==
    {Array(<<>>), NoArray}
    \cup UNION {UNION {{Array([i \in 1..k |-> IF i = j THEN v ELSE GoodItem(i)]) :
                            v \in ItemValues(j)} : j \in 1..k} : k \in 1..MaxItems}

Copy(platform, content) == [t |-> "object", platform |-> platform, content |-> content]
GoodCopy == Copy(Str("Instagram Post"), Str("Stop guessing where your funnel leaks."))
LongCopy ==
    Copy(Str("Instagram Post"),
         Str("Struggling to turn visitors into sign-ups? See exactly where your funnel leaks and fix it today."))
NoCopy == [t |-> "undefined", platform |-> Undefined, content |-> Undefined]
CopyValues == {GoodCopy, LongCopy, Copy(Str("Instagram Post"), Undefined), NoCopy}

AnalyzeOutputs ==
    {[t |-> "object", analysis |-> a, sampleCopy |-> c] :
        a \in AnalysisValues, c \in CopyValues} \cup {Null}
CopyOutputs == (CopyValues \ {NoCopy}) \cup {Copy(Undefined, Str("Buy now.")), Null}

ModelOutputs(f) == IF f = "analyzeMarketingOffer" THEN AnalyzeOutputs ELSE CopyOutputs

CopyRequests ==
    {[analysis |-> a, persona |-> p, offerDetails |-> o] :
        a \in AnalysisValues,
        p \in {Str("SaaS Founders"), Str(""), Undefined},
        o \in {Str("https://example.com/signup"), Str("short"), Undefined}}

----------------------------------------------------------------------------
\* Errors and outcomes

NoReason == [origin |-> "none", fields |-> {}, cause |-> "none", retryable |-> "unset"]

\* Genkit rejects a value that does not parse against a flow's schema
SchemaError(origin, fields) ==
    [origin |-> origin, fields |-> fields, cause |-> "schema", retryable |-> "unset"]

\* What the model service raises: an Error; nothing in it says whether to retry
ModelErrors ==
    {[origin |-> "model", fields |-> {}, cause |-> c, retryable |-> "unset"] :
        c \in {"timeout", "transport", "quota", "safety"}}

Pending == [status |-> "Pending", value |-> Null, reason |-> NoReason]
Succeeded(v) == [status |-> "Succeeded", value |-> v, reason |-> NoReason]
Failed(r) == [status |-> "Failed", value |-> Null, reason |-> r]

NoResponse == [kind |-> "none", output |-> Null, error |-> NoReason]

----------------------------------------------------------------------------
\* Prompt templates: the request's values substituted into fixed text

NoPrompt == [name |-> "none", offerDetails |-> Undefined, inputType |-> Undefined,
             persona |-> Undefined, analysis |-> <<>>]

analyzeMarketingOfferPrompt(in) ==
    [name |-> "analyzeMarketingOfferPrompt", offerDetails |-> in.offerDetails,
     inputType |-> in.inputType, persona |-> in.persona, analysis |-> <<>>]

generateSocialMediaCopyPrompt(in) ==
    [name |-> "generateSocialMediaCopyPrompt", offerDetails |-> in.offerDetails,
     inputType |-> Undefined, persona |-> in.persona,
     analysis |-> [i \in 1..Len(in.analysis.items) |->
                     LET it == in.analysis.items[i] IN
                     <<it.area, it.score, it.leak,
                       it.fix.primarySuggestion, it.fix.abTestSuggestion>>]]

\* Variant: the template also interpolates how many calls have rendered so far.
RenderPromptCounting(f, in) ==
    [(IF f = "analyzeMarketingOffer"
      THEN analyzeMarketingOfferPrompt(in)
      ELSE generateSocialMediaCopyPrompt(in))
     EXCEPT !.inputType = Num(Cardinality({j \in Invocations : inv[j].modelCalls >= 1}))]

\* prompt(input): the template is chosen by the flow and filled from the input.
RenderPrompt(f, in) ==
    IF f = "analyzeMarketingOffer"
    THEN analyzeMarketingOfferPrompt(in)
    ELSE generateSocialMediaCopyPrompt(in)

----------------------------------------------------------------------------
\* The flows

IdleInvocation ==
    [flow |-> "none", input |-> Null, pc |-> "idle", prompt |-> NoPrompt,
     modelCalls |-> 0, response |-> NoResponse, outcome |-> Pending]

ModelConfig == [model |-> "gemini-2.0-flash", apiKey |-> "GOOGLE_API_KEY"]

ParInit ==
    /\ inv = [i \in Invocations |-> IdleInvocation]
    /\ config = ModelConfig

NoError == <<>>
NoSettlement == [id |-> 0, kind |-> "none", value |-> Null, message |-> ""]

PageInit ==
    /\ inputType = "link"
    /\ inputValue = ""
    /\ persona = "General Audience"
    /\ results = Null
    /\ error = NoError
    /\ isPending = FALSE
    /\ started = 0
    /\ inFlight = {}
    /\ settled = NoSettlement

FlowInit ==
    /\ flow = "none"
    /\ input = Null
    /\ chained = FALSE
    /\ pc = "idle"
    /\ prompt = NoPrompt
    /\ modelCalls = 0
    /\ response = NoResponse
    /\ outcome = Pending
    /\ timedOut = FALSE

DonutInit ==
    /\ shown = <<>>
    /\ donuts = <<>>

CopyInit ==
    /\ copySuccess = ""
    /\ clicks = 0
    /\ writes = {}
    /\ timers = <<>>
    /\ labelFrom = 0

Init == FlowInit /\ ParInit /\ PageInit /\ DonutInit /\ CopyInit

\* Variant: the body runs, and calls the model, whether or not the argument parses.
RunFlowUnvalidated(f, in, fromResult) ==
    /\ flow' = f
    /\ input' = in
    /\ chained' = fromResult
    /\ response' = NoResponse
    /\ timedOut' = FALSE
    /\ prompt' = RenderPrompt(f, in)
    /\ modelCalls' = 1
    /\ pc' = "awaitModel"
    /\ outcome' = Pending
\* ai.defineFlow({inputSchema, ...}): the argument is parsed first; the body
\* runs only when it parses, and its first statement calls the prompt.
RunFlow(f, in, fromResult) ==
    /\ flow' = f
    /\ input' = in
    /\ chained' = fromResult
    /\ response' = NoResponse
    /\ timedOut' = FALSE
    /\ IF InputIssues(f, in) = {}
       THEN /\ prompt' = RenderPrompt(f, in)
            /\ modelCalls' = 1
            /\ pc' = "awaitModel"
            /\ outcome' = Pending
       ELSE /\ prompt' = NoPrompt
            /\ modelCalls' = 0
            /\ pc' = "done"
            /\ outcome' = Failed(SchemaError("inputSchema", InputIssues(f, in)))

analyzeMarketingOffer ==
    /\ pc = "idle"
    /\ \E in \in AnalyzeRequests : RunFlow("analyzeMarketingOffer", in, FALSE)
    /\ UNCHANGED <<parVars, pageVars, resultsVars>>

generateSocialMediaCopy ==
    /\ pc = "idle"
    /\ \E in \in CopyRequests : RunFlow("generateSocialMediaCopy", in, FALSE)
    /\ UNCHANGED <<parVars, pageVars, resultsVars>>

\* The caller passes the analysis of the result it just received, with the
\* persona and offerDetails of the request that produced it.
generateSocialMediaCopyFromResult ==
    /\ pc = "done"
    /\ flow = "analyzeMarketingOffer"
    /\ outcome.status = "Succeeded"
    /\ RunFlow("generateSocialMediaCopy",
               [analysis |-> outcome.value.analysis, persona |-> input.persona,
                offerDetails |-> input.offerDetails], TRUE)
    /\ UNCHANGED <<parVars, pageVars, resultsVars>>

\* The step after the model has answered with out: the body's next position,
\* the calls made so far and the promise's state.
\* Variant: the output is returned as cast, without the outputSchema parse.
OnModelOutputCast(f, out, calls) ==
    [pc |-> "done", modelCalls |-> calls, outcome |-> Succeeded(out)]
\* Variant: an output that does not parse makes the body call the model again.
OnModelOutputRetry(f, out, calls) ==
    IF OutputSchema(f, out)
    THEN [pc |-> "done", modelCalls |-> calls, outcome |-> Succeeded(out)]
    ELSE IF calls < 2
         THEN [pc |-> "awaitModel", modelCalls |-> calls + 1, outcome |-> Pending]
         ELSE [pc |-> "done", modelCalls |-> calls,
               outcome |-> Failed(SchemaError("outputSchema", {}))]
\* const {output} = await prompt(input); return output!;  then outputSchema.
OnModelOutput(f, out, calls) ==
    IF OutputSchema(f, out)
    THEN [pc |-> "done", modelCalls |-> calls, outcome |-> Succeeded(out)]
    ELSE [pc |-> "done", modelCalls |-> calls,
          outcome |-> Failed(SchemaError("outputSchema", {}))]

ModelReturns ==
    /\ pc = "awaitModel"
    /\ \E out \in ModelOutputs(flow) :
         LET next == OnModelOutput(flow, out, modelCalls) IN
         /\ response' = [kind |-> "output", output |-> out, error |-> NoReason]
         /\ pc' = next.pc
         /\ modelCalls' = next.modelCalls
         /\ outcome' = next.outcome
    /\ UNCHANGED <<flow, input, chained, prompt, timedOut>>
    /\ UNCHANGED <<parVars, pageVars, resultsVars>>

\* Variant: the rejection is recorded but the body stays at the await.
OnModelErrorResumable(err) ==
    [pc |-> "awaitModel", outcome |-> Failed(err)]
\* The awaited prompt call rejects: the body has no try/catch, so the flow
\* rejects with the same error.
OnModelError(err) ==
    [pc |-> "done", outcome |-> Failed(err)]

ModelThrows ==
    /\ pc = "awaitModel"
    /\ \E err \in ModelErrors :
         /\ response' = [kind |-> "error", output |-> Null, error |-> err]
         /\ outcome' = OnModelError(err).outcome
         /\ pc' = OnModelError(err).pc
    /\ UNCHANGED <<flow, input, chained, prompt, modelCalls, timedOut>>
    /\ UNCHANGED <<parVars, pageVars, resultsVars>>

\* The caller's time budget runs out while the model call is in flight. The
\* flow takes no AbortSignal and sets no timer, so nothing of it changes.
CallerTimeout ==
    /\ pc = "awaitModel"
    /\ ~timedOut
    /\ timedOut' = TRUE
    /\ UNCHANGED <<flow, input, chained, pc, prompt, modelCalls, response, outcome>>
    /\ UNCHANGED <<parVars, pageVars, resultsVars>>

\* The caller has consumed the settled promise; nothing of the invocation
\* outlives it.
Discard ==
    /\ pc = "done"
    /\ flow' = "none"
    /\ input' = Null
    /\ chained' = FALSE
    /\ pc' = "idle"
    /\ prompt' = NoPrompt
    /\ modelCalls' = 0
    /\ response' = NoResponse
    /\ outcome' = Pending
    /\ timedOut' = FALSE
    /\ UNCHANGED <<parVars, pageVars, resultsVars>>

Next ==
    \/ analyzeMarketingOffer
    \/ generateSocialMediaCopy
    \/ generateSocialMediaCopyFromResult
    \/ ModelReturns
    \/ ModelThrows
    \/ CallerTimeout
    \/ Discard

Spec == Init /\ [][Next]_vars

-----------------------------------------------------------------------------
\* Several invocations in flight at once.  The flows are async functions: the
\* argument, the rendered prompt and the {output} of the await are locals of
\* one call; the module level holds only the schemas, the prompts and ai,
\* all of them const.

ParAnalyzeRequests ==
    { [t |-> "object", offerDetails |-> Str("https://example.com/signup"),
       inputType |-> Str("link"), persona |-> Str("General Audience")],
      [t |-> "object", offerDetails |-> Str("Stop guessing where your funnel leaks."),
       inputType |-> Str("text"), persona |-> Str("SaaS Founders")],
      [t |-> "object", offerDetails |-> Str("https://example.com/signup"),
       inputType |-> Str("url"), persona |-> Str("General Audience")] }

ParCopyRequests ==
    { [t |-> "object", analysis |-> Array(<<GoodItem(1), GoodItem(2)>>),
       persona |-> Str("General Audience"),
       offerDetails |-> Str("https://example.com/signup")] }

ParRequests(f) ==
    IF f = "analyzeMarketingOffer" THEN ParAnalyzeRequests ELSE ParCopyRequests

ParOutputs(f) ==
    IF f = "analyzeMarketingOffer"
    THEN { [t |-> "object", analysis |-> Array(<<GoodItem(1), GoodItem(2)>>),
            sampleCopy |-> LongCopy],
           [t |-> "object", analysis |-> Array(<<GoodItem(1), GoodItem(2), GoodItem(3)>>),
            sampleCopy |-> GoodCopy],
           Null }
    ELSE { LongCopy, GoodCopy, Null }

\* The locals of a call after the wrapper has parsed the argument.
Started(f, in) ==
    IF InputIssues(f, in) = {}
    THEN [flow |-> f, input |-> in, pc |-> "awaitModel",
          prompt |-> RenderPrompt(f, in), modelCalls |-> 1,
          response |-> NoResponse, outcome |-> Pending]
    ELSE [flow |-> f, input |-> in, pc |-> "done",
          prompt |-> NoPrompt, modelCalls |-> 0,
          response |-> NoResponse,
          outcome |-> Failed(SchemaError("inputSchema", InputIssues(f, in)))]

ParStart(i) ==
    /\ inv[i].pc = "idle"
    /\ \E f \in {"analyzeMarketingOffer", "generateSocialMediaCopy"} :
         \E in \in ParRequests(f) :
            inv' = [inv EXCEPT ![i] = Started(f, in)]
    /\ UNCHANGED <<config, flowVars, pageVars, resultsVars>>

\* Variant: {output} kept in one module-level binding, so that every call of
\* the flow waiting at that moment resumes with it.
AwaitReturnsShared(i, out) ==
    [j \in Invocations |->
        IF inv[j].pc = "awaitModel" /\ inv[j].flow = inv[i].flow
        THEN [inv[j] EXCEPT
                !.response = IF j = i THEN [kind |-> "output", output |-> out, error |-> NoReason] ELSE @,
                !.pc = OnModelOutput(inv[j].flow, out, inv[j].modelCalls).pc,
                !.modelCalls = OnModelOutput(inv[j].flow, out, inv[j].modelCalls).modelCalls,
                !.outcome = OnModelOutput(inv[j].flow, out, inv[j].modelCalls).outcome]
        ELSE inv[j]]

\* const {output} = await prompt(input); return output!;
AwaitReturns(i, out) ==
    [inv EXCEPT
        ![i].response = [kind |-> "output", output |-> out, error |-> NoReason],
        ![i].pc = OnModelOutput(inv[i].flow, out, inv[i].modelCalls).pc,
        ![i].modelCalls = OnModelOutput(inv[i].flow, out, inv[i].modelCalls).modelCalls,
        ![i].outcome = OnModelOutput(inv[i].flow, out, inv[i].modelCalls).outcome]

ParModelReturns(i) ==
    /\ inv[i].pc = "awaitModel"
    /\ config = ModelConfig
    /\ \E out \in ParOutputs(inv[i].flow) : inv' = AwaitReturns(i, out)
    /\ UNCHANGED <<config, flowVars, pageVars, resultsVars>>

ParModelThrows(i) ==
    /\ inv[i].pc = "awaitModel"
    /\ \E err \in ModelErrors :
         inv' = [inv EXCEPT
                   ![i].response = [kind |-> "error", output |-> Null, error |-> err],
                   ![i].pc = OnModelError(err).pc,
                   ![i].outcome = OnModelError(err).outcome]
    /\ UNCHANGED <<config, flowVars, pageVars, resultsVars>>

\* The caller has taken the settled promise; the call's locals are gone.
ParDiscard(i) ==
    /\ inv[i].pc = "done"
    /\ inv' = [inv EXCEPT ![i] = IdleInvocation]
    /\ UNCHANGED <<config, flowVars, pageVars, resultsVars>>

ParNext ==
    \E i \in Invocations :
        \/ ParStart(i)
        \/ ParModelReturns(i)
        \/ ParModelThrows(i)
        \/ ParDiscard(i)

SpecPar == Init /\ [][ParNext]_vars

-----------------------------------------------------------------------------
\* The Home page

InputTexts ==
    {"", "   ", "https://example.com/signup", "Stop guessing where your funnel leaks.",
     "not-a-url", "javascript:alert(1)"}

\* Variant: the value is tested as typed.
TrimNothing(s) == s

\* inputValue.trim() on the texts of InputTexts
Trim(s) == IF s = "   " THEN "" ELSE s

\* The texts of InputTexts that parse as an absolute URL, of any scheme.
IsAbsoluteUrl(s) == s \in {"https://example.com/signup", "javascript:alert(1)"}

\* The form has no noValidate: the browser submits it only when its controls
\* are valid. <Input type="url"> is valid when its value, stripped of
\* surrounding whitespace, is empty or an absolute URL; the Textarea always is.
BrowserAccepts(type, value) ==
    type = "text" \/ Trim(value) = "" \/ IsAbsoluteUrl(value)

\* Variant: free text is accepted as a persona.
SelectablePersonasFreeText == personaOptions \cup {"Night Owls"}

\* {personaOptions.map(option => <SelectItem key={option} value={option}>)}
SelectablePersonas == personaOptions

BlankError == <<"Please enter a URL or describe your offer.">>

\* `An error occurred while analyzing: ${errorMessage}. Please try again.`
AnalysisError(errorMessage) ==
    <<"An error occurred while analyzing: ", errorMessage, ". Please try again.">>

\* The message of the Error a failed call of the flow carries.
RawMessage(reason) ==
    CASE reason.origin = "inputSchema" -> "Schema validation failed. Parse Errors: (root)"
      [] reason.origin = "outputSchema" -> "Schema validation failed. Provided data: null"
      [] reason.cause = "timeout" -> "[504 Gateway Timeout] Deadline expired before operation could complete."
      [] reason.cause = "transport" -> "fetch failed"
      [] reason.cause = "quota" -> "[429 Too Many Requests] Resource has been exhausted (e.g. check quota)."
      [] OTHER -> "Candidate was blocked due to SAFETY"

\* The flows are server actions ('use server'): a production build replaces
\* the message of an Error thrown on the server before the client sees it, a
\* development build passes it on.
MaskedMessage == "An error occurred in the Server Components render."
ThrownMessages(reason) == {RawMessage(reason), MaskedMessage}

\* const errorMessage = err instanceof Error ? err.message : 'An unexpected error occurred.'
ErrorMessageOf(err) ==
    IF err.isError THEN err.message ELSE "An unexpected error occurred."

PageModelOutputs ==
    { [t |-> "object", analysis |-> Array(<<GoodItem(1), GoodItem(2)>>),
       sampleCopy |-> LongCopy],
      Null }

PageModelErrors == {e \in ModelErrors : e.cause \in {"timeout", "transport"}}

Resolved(v) == [kind |-> "resolved", value |-> v, err |-> [isError |-> FALSE, message |-> ""]]
Rejected(m) == [kind |-> "rejected", value |-> Null, err |-> [isError |-> TRUE, message |-> m]]

OfOutcome(o) ==
    IF o.status = "Succeeded"
    THEN {Resolved(o.value)}
    ELSE {Rejected(m) : m \in ThrownMessages(o.reason)}

\* How await analyzeMarketingOffer(request) can end.
Settlements(request) ==
    IF InputIssues("analyzeMarketingOffer", request) # {}
    THEN OfOutcome(Failed(SchemaError("inputSchema",
                                      InputIssues("analyzeMarketingOffer", request))))
    ELSE UNION ({OfOutcome(OnModelOutput("analyzeMarketingOffer", out, 1).outcome) :
                    out \in PageModelOutputs}
                \cup {OfOutcome(OnModelError(e).outcome) : e \in PageModelErrors})

setInputType(t) ==
    /\ inputType' = t
    /\ UNCHANGED <<inputValue, persona, results, error, isPending, started, inFlight, settled>>
    /\ UNCHANGED <<flowVars, parVars, resultsVars>>

setPersona(p) ==
    /\ persona' = p
    /\ UNCHANGED <<inputType, inputValue, results, error, isPending, started, inFlight, settled>>
    /\ UNCHANGED <<flowVars, parVars, resultsVars>>

\* Variant: editing the input also drops the results on display.
handleInputChangeClearing(v) ==
    /\ inputValue' = v
    /\ error' = IF error # NoError THEN NoError ELSE error
    /\ results' = Null
    /\ UNCHANGED <<inputType, persona, isPending, started, inFlight, settled>>
    /\ UNCHANGED <<flowVars, parVars, resultsVars>>

handleInputChange(v) ==
    /\ inputValue' = v
    /\ error' = IF error # NoError THEN NoError ELSE error
    /\ UNCHANGED <<inputType, persona, results, isPending, started, inFlight, settled>>
    /\ UNCHANGED <<flowVars, parVars, resultsVars>>

\* Variant: the submit button ignores isLoading.
SubmitAlwaysEnabled == TRUE

\* <Button type="submit" disabled={isLoading}> with isLoading={isPending}
SubmitEnabled == ~isPending

\* Variant: the transition counts only the synchronous part of its callback.
TransitionPendingSyncOnly(outstanding) == FALSE

\* Variant: a loading flag that is set at the start and never reset.
TransitionPendingLatched(outstanding) == outstanding # {} \/ isPending

\* isPending of useTransition for an async callback: true until the promise
\* the callback returned has settled.
TransitionPending(outstanding) == outstanding # {}

\* Variant: the callback leaves the error of the last attempt in place.
OnStartKeepError == [results |-> Null, error |-> error]

\* setResults(null); setError('');
OnStart == [results |-> Null, error |-> NoError]

handleSubmit ==
    /\ SubmitEnabled
    /\ BrowserAccepts(inputType, inputValue)
    /\ IF Trim(inputValue) = ""
       THEN /\ error' = BlankError
            /\ UNCHANGED <<results, isPending, started, inFlight>>
       ELSE /\ started < MaxSubmits
            /\ started' = started + 1
            /\ results' = OnStart.results
            /\ error' = OnStart.error
            /\ inFlight' = inFlight \cup
                 {[id |-> started + 1,
                   request |-> [t |-> "object", offerDetails |-> Str(inputValue),
                                inputType |-> Str(inputType), persona |-> Str(persona)]]}
            /\ isPending' = TransitionPending(inFlight')
    /\ UNCHANGED <<inputType, inputValue, persona, settled>>
    /\ UNCHANGED <<flowVars, parVars, resultsVars>>

\* try: setResults(response)
AnalysisResolves ==
    /\ \E r \in inFlight : \E a \in Settlements(r.request) :
         /\ a.kind = "resolved"
         /\ results' = a.value
         /\ inFlight' = inFlight \ {r}
         /\ settled' = [id |-> r.id, kind |-> a.kind, value |-> a.value, message |-> ""]
    /\ isPending' = TransitionPending(inFlight')
    /\ UNCHANGED <<inputType, inputValue, persona, error, started>>
    /\ UNCHANGED <<flowVars, parVars, resultsVars>>

\* catch (err): setError(...); setResults(null)
AnalysisRejects ==
    /\ \E r \in inFlight : \E a \in Settlements(r.request) :
         /\ a.kind = "rejected"
         /\ error' = AnalysisError(ErrorMessageOf(a.err))
         /\ results' = Null
         /\ inFlight' = inFlight \ {r}
         /\ settled' = [id |-> r.id, kind |-> a.kind, value |-> Null,
                        message |-> ErrorMessageOf(a.err)]
    /\ isPending' = TransitionPending(inFlight')
    /\ UNCHANGED <<inputType, inputValue, persona, started>>
    /\ UNCHANGED <<flowVars, parVars, resultsVars>>

PageNext ==
    \/ \E t \in {"link", "text"} : setInputType(t)
    \/ \E p \in SelectablePersonas : setPersona(p)
    \/ \E v \in InputTexts : handleInputChange(v)
    \/ handleSubmit
    \/ AnalysisResolves
    \/ AnalysisRejects

SpecPage == Init /\ [][PageNext]_vars

\* The awaited call settles, and the continuation after the await then runs.
FairSpecPage == SpecPage /\ WF_vars(AnalysisResolves \/ AnalysisRejects)

-----------------------------------------------------------------------------
\* ScoreDonut, as rendered by AnalysisResults for each analysis item

\* Items AnalysisResults is given in one rendering.
MaxShown == 2

\* item.score is whatever number the flow returned: the schema is z.number().
DonutScores ==
    {Num(i) : i \in 0..11} \cup {Tenths(35), Tenths(65)}

ShownValues ==
    {<<a>> : a \in DonutScores}
    \cup (IF MaxShown >= 2 THEN {<<a, b>> : a, b \in DonutScores} ELSE {})
    \cup (IF MaxShown >= 3
          THEN {<<a, b, c>> : a \in DonutScores, b \in {Num(6), Num(7)}, c \in {Num(3), Num(4)}}
          ELSE {})

\* Variant: the yellow band takes 7 as well.
ScoreDonutInclusive(score) ==
    LET c0 == "text-green-400"
        c1 == IF score.n10 <= 70 THEN "text-yellow-400" ELSE c0
        c2 == IF score.n10 < 40 THEN "text-red-400" ELSE c1
    IN  [score |-> score, percentage |-> score.n10, colorClass |-> c2]

\* let colorClass = 'text-green-400';
\* if (score < 7) colorClass = 'text-yellow-400';
\* if (score < 4) colorClass = 'text-red-400';
ScoreDonut(score) ==
    LET c0 == "text-green-400"
        c1 == IF score.n10 < 70 THEN "text-yellow-400" ELSE c0
        c2 == IF score.n10 < 40 THEN "text-red-400" ELSE c1
    IN  [score |-> score, percentage |-> score.n10, colorClass |-> c2]

\* <AnalysisResults results={results} />
ShowResults ==
    /\ shown = <<>>
    /\ \E scs \in ShownValues : shown' = scs
    /\ donuts' = <<>>
    /\ UNCHANGED <<copyVars, flowVars, parVars, pageVars>>

\* results.analysis.map((item, index) => ... <ScoreDonut score={item.score} />)
RenderScoreDonut ==
    /\ Len(donuts) < Len(shown)
    /\ donuts' = Append(donuts, ScoreDonut(shown[Len(donuts) + 1]))
    /\ UNCHANGED <<shown, copyVars, flowVars, parVars, pageVars>>

DonutNext == ShowResults \/ RenderScoreDonut

SpecDonut == Init /\ [][DonutNext]_vars

-----------------------------------------------------------------------------
\* The copy button of AnalysisResults

\* Clicks on the copy button while the results stay on display.
MaxClicks == 4

\* setTimeout(() => setCopySuccess(''), 2000)
CopiedTimeoutMs == 2000

\* <span>{copySuccess ? copySuccess : 'Copy'}</span>
CopyLabel == IF copySuccess # "" THEN copySuccess ELSE "Copy"

\* onClick={() => copyToClipboard(results.sampleCopy.content)}: the handler
\* runs up to await navigator.clipboard.writeText(text). The button is never
\* disabled, so several writes can be under way.
copyToClipboard ==
    /\ clicks < MaxClicks
    /\ clicks' = clicks + 1
    /\ writes' = writes \cup {clicks + 1}
    /\ UNCHANGED <<copySuccess, timers, labelFrom>>
    /\ UNCHANGED <<donutVars, flowVars, parVars, pageVars>>

\* Variant: the confirmation is set and no timeout is started.
OnCopiedNoTimeout(c) == [copySuccess |-> "Copied!", timers |-> timers]

\* setCopySuccess('Copied!'); setTimeout(() => setCopySuccess(''), 2000);
OnCopied(c) ==
    [copySuccess |-> "Copied!",
     timers |-> Append(timers, [click |-> c, ms |-> CopiedTimeoutMs])]

\* Variant: the catch sets the confirmation.
OnCopyFailedSilently(c) == [copySuccess |-> "Copied!", timers |-> timers]

\* catch (err): console.error(...); setCopySuccess('Failed!');
OnCopyFailed(c) == [copySuccess |-> "Failed!", timers |-> timers]

WriteResolves ==
    \E c \in writes :
        /\ writes' = writes \ {c}
        /\ copySuccess' = OnCopied(c).copySuccess
        /\ timers' = OnCopied(c).timers
        /\ labelFrom' = c
        /\ UNCHANGED clicks
        /\ UNCHANGED <<donutVars, flowVars, parVars, pageVars>>

WriteRejects ==
    \E c \in writes :
        /\ writes' = writes \ {c}
        /\ copySuccess' = OnCopyFailed(c).copySuccess
        /\ timers' = OnCopyFailed(c).timers
        /\ labelFrom' = c
        /\ UNCHANGED clicks
        /\ UNCHANGED <<donutVars, flowVars, parVars, pageVars>>

\* () => setCopySuccess(''): the timeouts have the same delay, so they fire in
\* the order they were set, and none is ever cleared.
TimerFires ==
    /\ timers # <<>>
    /\ timers' = Tail(timers)
    /\ copySuccess' = ""
    /\ labelFrom' = 0
    /\ UNCHANGED <<clicks, writes>>
    /\ UNCHANGED <<donutVars, flowVars, parVars, pageVars>>

CopyNext ==
    \/ copyToClipboard
    \/ WriteResolves
    \/ WriteRejects
    \/ TimerFires

SpecCopy == Init /\ [][CopyNext]_vars

\* A clipboard write settles, and a timeout that was set fires.
FairSpecCopy ==
    SpecCopy /\ WF_vars(WriteResolves \/ WriteRejects) /\ WF_vars(TimerFires)

----------------------------------------------------------------------------
\* Properties

InPersonaOptions(v) == v.t = "string" /\ v.s \in personaOptions
InLinkOrText(v) == v.t = "string" /\ v.s \in {"link", "text"}
AtLeastTenChars(v) == v.t = "string" /\ Length(v.s) >= 10

\* An analyzeMarketingOffer request that meets every documented constraint
WellFormedRequest ==
    /\ flow = "analyzeMarketingOffer"
    /\ AtLeastTenChars(input.offerDetails)
    /\ InLinkOrText(input.inputType)
    /\ InPersonaOptions(input.persona)

AnalyzeSucceeded == WellFormedRequest /\ outcome.status = "Succeeded"
ResultItems == outcome.value.analysis.items
RejectedAtInput ==
    /\ pc = "done"
    /\ outcome.status = "Failed"
    /\ outcome.reason.origin = "inputSchema"
    /\ modelCalls = 0
    /\ response.kind = "none"

\* C1: a result returned by analyzeMarketingOffer has 2 or 3 analysis items.
C1_AnalysisLengthTwoOrThree ==
    AnalyzeSucceeded => Len(ResultItems) \in {2, 3}

\* C2: every item of a returned analysis has an integer score from 1 to 10.
C2_ScoresIntegerOneToTen ==
    AnalyzeSucceeded =>
        \A i \in 1..Len(ResultItems) :
            /\ ResultItems[i].score.t = "number"
            /\ ResultItems[i].score.n10 % 10 = 0
            /\ ResultItems[i].score.n10 \in 10..100

\* C3: in every item of a returned analysis the two fix suggestions differ.
C3_SuggestionsDiffer ==
    AnalyzeSucceeded =>
        \A i \in 1..Len(ResultItems) :
            ResultItems[i].fix.primarySuggestion # ResultItems[i].fix.abTestSuggestion

\* C4: a request whose offerDetails has fewer than 10 characters is rejected
\* by request validation with no model call.
C4_ShortOfferRejected ==
    (/\ flow = "analyzeMarketingOffer"
     /\ input.offerDetails.t = "string"
     /\ Length(input.offerDetails.s) < 10
     /\ InLinkOrText(input.inputType)
     /\ InPersonaOptions(input.persona))
    => RejectedAtInput

\* C5: a request whose persona is not one of the six options is rejected by
\* request validation, naming the persona field, with no model call.
C5_UnknownPersonaRejected ==
    (/\ flow = "analyzeMarketingOffer"
     /\ AtLeastTenChars(input.offerDetails)
     /\ InLinkOrText(input.inputType)
     /\ ~InPersonaOptions(input.persona))
    => RejectedAtInput /\ "persona" \in outcome.reason.fields

\* C6: a request whose inputType is neither 'link' nor 'text' is rejected by
\* request validation, naming inputType, and the model is never called for it.
C6_InvalidInputTypeRejected ==
    (/\ flow = "analyzeMarketingOffer"
     /\ ~InLinkOrText(input.inputType))
    => RejectedAtInput /\ "inputType" \in outcome.reason.fields

C6_Witness ==
    /\ flow = "analyzeMarketingOffer"
    /\ input.inputType = Str("invalid")
    /\ RejectedAtInput
    /\ outcome.reason.fields = {"inputType"}

\* C7: generateSocialMediaCopy called with the analysis of a returned result,
\* items unchanged, and the same persona and offerDetails, passes request
\* validation: it is never rejected at its input and reaches the model call.
C7_AnalysisRoundTrip ==
    chained =>
        /\ flow = "generateSocialMediaCopy"
        /\ outcome.reason.origin # "inputSchema"
        /\ modelCalls = 1
        /\ prompt.name = "generateSocialMediaCopyPrompt"

C7_Witness ==
    /\ chained
    /\ pc = "awaitModel"
    /\ Len(input.analysis.items) >= 2
    /\ \A i \in 1..Len(input.analysis.items) : input.analysis.items[i].id.t = "string"

C9_TimeoutFailsRetryable ==
    (/\ WellFormedRequest
     /\ pc = "done"
     /\ response.kind = "error"
     /\ response.error.cause \in {"timeout", "transport"})
    => /\ outcome.status = "Failed"
       /\ modelCalls = 1
       /\ outcome.reason.retryable = "true"

\* C10: an invocation succeeds only with an output the model returned in that
\* invocation and that parses against the flow's response schema; the value
\* returned is that output.
C10_SuccessOnlyFromValidatedOutput ==
    outcome.status = "Succeeded" =>
        /\ response.kind = "output"
        /\ response.output.t = "object"
        /\ OutputSchema(flow, response.output)
        /\ outcome.value = response.output

C10_Witness ==
    /\ flow = "generateSocialMediaCopy"
    /\ outcome.status = "Succeeded"
    /\ outcome.value = GoodCopy

\* C11: the steps of an invocation run in the order validate request, render
\* prompt, call model, validate output: a model call implies a request that
\* parsed and the prompt rendered from it; a response implies a model call; a
\* settled promise after a response is what validating that response gives.
C11_StepOrder ==
    /\ prompt # NoPrompt => InputIssues(flow, input) = {}
    /\ modelCalls >= 1 => InputIssues(flow, input) = {} /\ prompt = RenderPrompt(flow, input)
    /\ response.kind # "none" => modelCalls >= 1
    /\ outcome.status = "Succeeded" => response.kind = "output"
    /\ (pc = "done" /\ response.kind = "none") => outcome.reason.origin = "inputSchema"

C11_Witness ==
    /\ flow = "analyzeMarketingOffer"
    /\ pc = "done"
    /\ prompt = analyzeMarketingOfferPrompt(input)
    /\ modelCalls = 1
    /\ response.kind = "output"
    /\ outcome.status = "Succeeded"

C12_Observable ==
    /\ outcome.status \in {"Pending", "Succeeded", "Failed"}
    /\ pc = "done" <=> outcome.status \in {"Succeeded", "Failed"}
    /\ outcome.status = "Pending" => outcome.value = Null /\ outcome.reason = NoReason
    /\ outcome.status = "Succeeded" => outcome.value # Null /\ outcome.reason = NoReason
    /\ outcome.status = "Failed" => outcome.value = Null /\ outcome.reason # NoReason

\* A step that stays within the invocation: it neither discards it nor starts
\* the next one.
SameInvocation == pc # "idle" /\ pc' # "idle" /\ flow' = flow

\* C12: the promise of an invocation is Pending, Succeeded or Failed; Pending
\* carries no value; it leaves Pending once, and once settled it never changes.
C12_ThreeObservableStates ==
    /\ []C12_Observable
    /\ [][SameInvocation =>
            /\ outcome.status = "Pending" =>
                  outcome' = Pending \/ outcome'.status \in {"Succeeded", "Failed"}
            /\ outcome.status # "Pending" => outcome' = outcome /\ pc' = pc]_vars

C12_Witness ==
    /\ pc = "done"
    /\ response.kind = "error"
    /\ outcome.status = "Failed"
    /\ outcome.reason = response.error

\* An output that meets the documented response constraints of C1, C2, C3, C17
MeetsDocumentedConstraints(out) ==
    /\ AnalyzeMarketingOfferOutputSchema(out)
    /\ Len(out.analysis.items) \in {2, 3}
    /\ \A i \in 1..Len(out.analysis.items) :
         /\ out.analysis.items[i].score.n10 % 10 = 0
         /\ out.analysis.items[i].score.n10 \in 10..100
         /\ out.analysis.items[i].fix.primarySuggestion
              # out.analysis.items[i].fix.abTestSuggestion
    /\ Length(out.sampleCopy.content.s) \in 50..500

\* C13: once the caller's time budget has run out during the model call, the
\* invocation does not succeed: a response that arrives later is discarded.
C13_TimeoutDiscardsLateResponse ==
    (/\ WellFormedRequest
     /\ timedOut
     /\ response.kind = "output"
     /\ MeetsDocumentedConstraints(response.output))
    => outcome.status # "Succeeded"

ReturnedContent ==
    IF flow = "analyzeMarketingOffer"
    THEN outcome.value.sampleCopy.content
    ELSE outcome.value.content

\* C17: the copy content of a returned result has 50 to 500 characters.
C17_ContentLength ==
    (/\ outcome.status = "Succeeded"
     /\ flow = "analyzeMarketingOffer" => WellFormedRequest)
    => Length(ReturnedContent.s) \in 50..500

\* What an invocation settles to when it is the only one running: a function
\* of its own argument and of the model's answer to its own call.
SoloOutcome(r) ==
    IF InputIssues(r.flow, r.input) # {}
    THEN Failed(SchemaError("inputSchema", InputIssues(r.flow, r.input)))
    ELSE IF r.response.kind = "output"
         THEN OnModelOutput(r.flow, r.response.output, 1).outcome
         ELSE Failed(r.response.error)

C14_OwnOutcome ==
    \A i \in Invocations :
        /\ inv[i].pc = "done" => inv[i].outcome = SoloOutcome(inv[i])
        /\ inv[i].pc = "awaitModel" => inv[i].outcome = Pending /\ inv[i].response = NoResponse

C14_OneAtATime ==
    /\ config' = config
    /\ \A i, j \in Invocations :
          (i # j /\ inv'[i] # inv[i]) => inv'[j] = inv[j]

\* C14: concurrent invocations are independent. Every step changes the locals
\* of at most one invocation and never the shared configuration, and each
\* invocation settles to what its own argument and the model's answer to its
\* own call give when it runs alone, whatever the other invocations do.
C14_ConcurrentIndependent == []C14_OwnOutcome /\ [][C14_OneAtATime]_vars

\* Two invocations in flight with different arguments; one has settled with a
\* value while the other still waits for the model.
C14_Witness ==
    \E i, j \in Invocations :
        /\ i # j
        /\ inv[i].pc = "done" /\ inv[i].outcome.status = "Succeeded"
        /\ inv[j].pc = "awaitModel" /\ inv[j].flow = inv[i].flow
        /\ inv[j].input # inv[i].input

RawMessages ==
    {RawMessage(e) : e \in ModelErrors}
    \cup {RawMessage(SchemaError(o, {})) : o \in {"inputSchema", "outputSchema"}}

\* C16: the message shown to the user on a failure contains no text taken
\* from the raw error raised by the model service.
C16_NoRawErrorText ==
    \A k \in 1..Len(error) : error[k] \notin RawMessages

IsAnalysisError(e) == Len(e) = 3

C20_OnSettle ==
    settled' # settled =>
        /\ settled'.kind = "resolved" => results' = settled'.value /\ error' = NoError
        /\ settled'.kind = "rejected" => results' = Null /\ error' # NoError
        /\ settled'.kind \in {"resolved", "rejected"}

C21_LoadingEnds == isPending ~> (~isPending /\ SubmitEnabled)

\* A second request is under way after the first one was rejected.
C21_Witness ==
    /\ started = 2
    /\ isPending
    /\ settled.id = 1
    /\ settled.kind = "rejected"

BlankTexts == {"", "   "}

C22_OnBlankSubmit ==
    (handleSubmit /\ inputValue \in BlankTexts) =>
        /\ error' = BlankError
        /\ started' = started
        /\ inFlight' = inFlight
        /\ ~isPending'

\* C22: a submit while the input is empty or whitespace sets the error
\* 'Please enter a URL or describe your offer.', starts no request and does
\* not enter the loading state; no request ever carries a blank offer.
C22_BlankSubmitRejected ==
    /\ [](\A r \in inFlight : r.request.offerDetails.s \notin BlankTexts)
    /\ [][C22_OnBlankSubmit]_vars

\* The whitespace-only input was submitted before any request was made.
C22_Witness ==
    /\ inputValue = "   "
    /\ error = BlankError
    /\ started = 0
    /\ ~isPending

IsHttpUrl(s) == s = "https://example.com/signup"

\* C23: with inputType 'link', a value that is not a well-formed http or
\* https URL starts no analysis request.
C23_LinkMustBeHttpUrl ==
    \A r \in inFlight :
        r.request.inputType.s = "link" => IsHttpUrl(r.request.offerDetails.s)

C24_ResultsFrame ==
    results' # results =>
        \/ started' = started + 1 /\ results' = Null
        \/ settled' # settled

\* C24: results change only when a request is started (cleared to null) or
\* when it settles; input edits, inputType toggles, persona changes and a
\* submit rejected for blank input leave results unchanged.
C24_ResultsKept == [][C24_ResultsFrame]_vars

\* Results are on display after the input was emptied, the type toggled, the
\* persona changed and the blank input submitted.
C24_Witness ==
    /\ results # Null
    /\ error = BlankError
    /\ inputValue = ""
    /\ inputType = "text"
    /\ persona = "Busy Parents"

C26_PersonaClosedSet ==
    /\ persona = "General Audience"
    /\ [](/\ persona \in personaOptions
          /\ \A r \in inFlight : r.request.persona.s \in personaOptions)

\* A request carrying a persona selected by the user is outstanding.
C26_Witness ==
    \E r \in inFlight :
        /\ r.request.persona.s = "Coaches & Consultants"
        /\ persona = "Coaches & Consultants"

IsScore(v) == v.t = "number" /\ v.n10 \in {10 * i : i \in 1..10}

BandColour(v) ==
    CASE v.n10 \in {70, 80, 90, 100} -> "text-green-400"
      [] v.n10 \in {40, 50, 60} -> "text-yellow-400"
      [] v.n10 \in {10, 20, 30} -> "text-red-400"

\* C27: every integer score from 1 to 10 has one colour: 7 to 10 green, 4 to
\* 6 yellow, 1 to 3 red.
C27_ScoreBands ==
    \A i \in 1..Len(donuts) :
        /\ donuts[i].score = shown[i]
        /\ IsScore(shown[i]) => donuts[i].colorClass = BandColour(shown[i])

\* The donuts of a 7 and of a 4 have been rendered, green and yellow.
C27_Witness ==
    /\ Len(donuts) = 2
    /\ donuts[1].score = Num(7) /\ donuts[1].colorClass = "text-green-400"
    /\ donuts[2].score = Num(4) /\ donuts[2].colorClass = "text-yellow-400"

WriteSettled == writes' # writes /\ clicks' = clicks
TimerFired == timers # <<>> /\ timers' = Tail(timers)

C28_OnStep ==
    /\ (WriteSettled /\ Len(timers') > Len(timers)) =>
          /\ CopyLabel' = "Copied!"
          /\ timers'[Len(timers')].ms = 2000
          /\ timers'[Len(timers')].click = labelFrom'
    /\ (WriteSettled /\ timers' = timers) => CopyLabel' = "Failed!"
    /\ TimerFired => CopyLabel' = "Copy"

C28_TimerPending ==
    copySuccess = "Copied!" => \E k \in 1..Len(timers) : timers[k].click = labelFrom

\* C28: a successful clipboard write shows 'Copied!' and starts a 2-second
\* timer whose expiry returns the label to 'Copy'; while 'Copied!' is shown the
\* timer of the click that produced it is pending; a failed write shows
\* 'Failed!'.
C28_CopyFeedback == []C28_TimerPending /\ [][C28_OnStep]_vars

\* 'Copied!' is on display with its timer pending.
C28_Witness ==
    /\ CopyLabel = "Copied!"
    /\ clicks = 1
    /\ timers = <<[click |-> 1, ms |-> 2000]>>

\* C29: the timer started by an earlier click never hides the confirmation or
\* failure indicator produced by a later click.
C29_OwnTimerHides ==
    [][(TimerFired /\ copySuccess # "") => Head(timers).click = labelFrom]_vars

\* C30: after any copy attempt the label eventually reverts to 'Copy'.
C30_LabelReverts == (copySuccess # "") ~> (copySuccess = "")

====
